---- MODULE Spec2Model ----
(***************************************************************************)
(* Model of the video-analysis pipeline:                                   *)
(*   - supabase/functions/analyze-video/index.ts  (edge function:          *)
(*     analyzeFrame, the batch loop and the aggregation of the verdicts)   *)
(*   - src/utils/frameExtractor.ts  (frame sampler and sampling policy)    *)
(*   - src/hooks/useVideoAnalysis.ts (the client that posts the frames)    *)
(*                                                                         *)
(* Numbers.  Scores and confidences are JavaScript numbers in [0,1]; the   *)
(* model writes them in thousandths (0.5 is 500, 0.99 is 990) and keeps    *)
(* every derived value (means, products) as an exact fraction              *)
(* [num |-> n, den |-> d] of thousandths, d > 0.  Rounding of IEEE doubles *)
(* is not modelled.                                                        *)
(***************************************************************************)
EXTENDS Integers, Sequences, FiniteSets, TLC

VARIABLES
    \* ---- edge function (analyze-video/index.ts) ----
    request,      \* the HTTP request being served
    apiKey,       \* TRUE iff Deno.env has LOVABLE_API_KEY
    epc,          \* position of the serve handler: "idle", "await", "done"
    i,            \* loop variable of the batch loop (0-based index of the group's first frame)
    batchResults, \* slots of the Promise.all of the current group: idx -> verdict, filled as calls fulfil
    inflight,     \* frame indices whose oracle call has been sent and not answered
    allAnalyses,  \* verdicts pushed so far
    response,     \* the HTTP response of the edge function (None until returned)
    \* ---- history of the oracle traffic (not program state) ----
    sent,         \* sequence of frame indices in the order their calls were issued
    replies,      \* frame index -> the oracle reply analyzeFrame received for that
                  \* frame (kept while the handler is waiting for it)
    \* ---- client hook (useVideoAnalysis.ts) ----
    hpc,          \* position of analyzeVideo
    isProcessing,
    progress,
    currentStep,
    result,
    toast,        \* last message passed to toast.error (None if none)
    \* ---- sampling policy / frame sampler (frameExtractor.ts) ----
    xpc,          \* position of extractFramesFromVideo
    duration,     \* video.duration, in seconds (a fraction)
    maxFrames,    \* options.maxFrames
    timestamps,   \* the timestamps array (fractions of a second)
    xi,           \* loop variable of the capture loop (0-based)
    currentTime,  \* video.currentTime as last set by captureFrame
    xframes,      \* the frames array: each frame is the image at the time it was drawn
    failed,       \* loop indices whose capture was rejected (history)
    settled,      \* outcome of the promise returned by extractFramesFromVideo
    frameCount,   \* result of getRecommendedFrameCount (0 until computed)
    videoWidth,   \* video.videoWidth
    videoHeight,  \* video.videoHeight
    canvasWidth,  \* canvas.width
    canvasHeight, \* canvas.height
    onProgress,   \* options.onProgress: "none" or "hook" (the callback analyzeVideo passes)
    reported,     \* the value last passed to onProgress (history; 0 before the first call)
    \* ---- a run of analyzeVideo and the browser resources it holds ----
    file,         \* the File given to analyzeVideo
    runs,         \* number of calls of analyzeVideo so far
    urls,         \* object URLs created and not revoked
    videos,       \* temporary video elements created and not removed
    \* aggregation applied to a list of verdicts
    verdicts,     \* the per-frame verdicts handed to the aggregation
    order,        \* a rearrangement of the positions of verdicts
    aggregated    \* the AnalysisResults computed from them, None before

edgeVars == <<request, apiKey, epc, i, batchResults, inflight, allAnalyses, response,
              sent, replies>>
hookVars == <<hpc, isProcessing, progress, currentStep, result, toast>>
samplerVars == <<xpc, duration, maxFrames, timestamps, xi, currentTime, xframes, failed,
                 settled, frameCount, videoWidth, videoHeight, canvasWidth, canvasHeight,
                 onProgress, reported>>
runVars == <<file, runs, urls, videos>>
aggVars == <<verdicts, order, aggregated>>
vars == <<edgeVars, hookVars, samplerVars, runVars, aggVars>>

None == [kind |-> "none"]

\* ---------------------------------------------------------------------------
\* Bounds of the model
\* ---------------------------------------------------------------------------
MaxFrames == 5        \* longest frame list posted to the edge function
MaxHalfSeconds == 370 \* longest duration given to the sampling policy, in half seconds
MaxSamples == 4       \* largest maxFrames given to the frame sampler
MaxSamplerHalfSeconds == 5 \* longest duration given to the frame sampler, in half seconds

\* ---------------------------------------------------------------------------
\* Exact fractions
\* ---------------------------------------------------------------------------
Rat(n, d) == [num |-> n, den |-> d]
RatMul(a, b) == Rat(a.num * b.num, a.den * b.den)
RatLess(a, b) == a.num * b.den < b.num * a.den
RatEq(a, b) == a.num * b.den = b.num * a.den
RatLeq(a, b) == a.num * b.den <= b.num * a.den
\* Math.max / Math.min on two numbers
MathMax(a, b) == IF RatLess(a, b) THEN b ELSE a
MathMin(a, b) == IF RatLess(b, a) THEN b ELSE a

\* ---------------------------------------------------------------------------
\* The oracle (AI gateway) and analyzeFrame
\* ---------------------------------------------------------------------------
\* JSON objects the oracle may put in choices[0].message.content.  A field the
\* object does not carry is outside its DOMAIN.
ObjFake == [isArtificial |-> TRUE, confidence |-> 900, faceScore |-> 200,
            lightingScore |-> 300, artifactScore |-> 400, qualityScore |-> 100,
            issues |-> <<"blending seams">>]
ObjReal == [isArtificial |-> FALSE, confidence |-> 800, faceScore |-> 900,
            lightingScore |-> 800, artifactScore |-> 700, qualityScore |-> 1000,
            issues |-> <<>>]
ObjSure == [isArtificial |-> TRUE, confidence |-> 1000, faceScore |-> 100,
            lightingScore |-> 200, artifactScore |-> 300, qualityScore |-> 400,
            issues |-> <<"warping">>]
ObjZero == [isArtificial |-> FALSE, confidence |-> 0, faceScore |-> 0,
            lightingScore |-> 0, artifactScore |-> 0, qualityScore |-> 0,
            issues |-> <<>>]
ObjPartial == [isArtificial |-> TRUE, confidence |-> 100]

\* Text of a reply: a JSON object, text that is no JSON, or nothing (choices[0].message.content missing, read as "").
TextObject(o) == [kind |-> "object", obj |-> o]
TextGarbage == [kind |-> "garbage"]
TextEmpty == [kind |-> "empty"]

\* content: the text, possibly wrapped in a ```json ... ``` fence
Content(fenced, text) == [fenced |-> fenced, text |-> text]

OkReply(content) == [ok |-> TRUE, status |-> 200, content |-> content]
FailReply(status) == [ok |-> FALSE, status |-> status]

OkReplies ==
    { OkReply(Content(FALSE, TextObject(ObjFake))),
      OkReply(Content(FALSE, TextObject(ObjReal))),
      OkReply(Content(TRUE, TextObject(ObjSure))),
      OkReply(Content(FALSE, TextObject(ObjZero))),
      OkReply(Content(FALSE, TextObject(ObjPartial))),
      OkReply(Content(FALSE, TextGarbage)),
      OkReply(Content(FALSE, TextEmpty)) }
FailReplies == { FailReply(429), FailReply(402), FailReply(500) }
OracleReplies == OkReplies \cup FailReplies

\* content.replace(/```json\n?|\n?```/g, "").trim()
StripFence(content) == content.text

\* JSON.parse: throws on text that is no JSON
JSONParse(text) ==
    IF text.kind = "object"
    THEN [threw |-> FALSE, value |-> text.obj]
    ELSE [threw |-> TRUE]

\* analysis.<field> || <default> on a boolean, a number and an array
BoolOr(obj, f, d) == IF f \in DOMAIN obj /\ obj[f] THEN obj[f] ELSE d
NumOr(obj, f, d) == IF f \in DOMAIN obj /\ obj[f] # 0 THEN obj[f] ELSE d
ArrOr(obj, f, d) == IF f \in DOMAIN obj THEN obj[f] ELSE d

\* (variant: the fallback flags the frame and reports no issue)
NeutralVerdictFlagged(frameIndex) ==
    [frameIndex |-> frameIndex, isArtificial |-> TRUE, confidence |-> 500,
     faceScore |-> 500, lightingScore |-> 500, artifactScore |-> 500,
     qualityScore |-> 500, issues |-> <<>>]

\* the verdict of the catch branch of analyzeFrame
NeutralVerdict(frameIndex) ==
    [frameIndex |-> frameIndex, isArtificial |-> FALSE, confidence |-> 500,
     faceScore |-> 500, lightingScore |-> 500, artifactScore |-> 500,
     qualityScore |-> 500, issues |-> <<"Unable to analyze frame">>]

\* the verdict of the try branch of analyzeFrame
ParsedVerdict(analysis, frameIndex) ==
    [frameIndex |-> frameIndex,
     isArtificial |-> BoolOr(analysis, "isArtificial", FALSE),
     confidence |-> NumOr(analysis, "confidence", 500),
     faceScore |-> NumOr(analysis, "faceScore", 500),
     lightingScore |-> NumOr(analysis, "lightingScore", 500),
     artifactScore |-> NumOr(analysis, "artifactScore", 500),
     qualityScore |-> NumOr(analysis, "qualityScore", 500),
     issues |-> ArrOr(analysis, "issues", <<>>)]

\* analyzeFrame after a reply with response.ok: parse, or fall back on the
\* neutral verdict when JSON.parse throws
analyzeFrame(reply, frameIndex) ==
    LET jsonStr == StripFence(reply.content)
        parsed == JSONParse(jsonStr)
    IN  IF parsed.threw
        THEN NeutralVerdict(frameIndex)
        ELSE ParsedVerdict(parsed.value, frameIndex)

\* An Error: its message, and in status the three-digit number that occurs in
\* the message (0 when there is none).
\* the Error thrown by analyzeFrame on !response.ok
GatewayError(status) == [message |-> "AI gateway error: ", status |-> status]
\* other errors raised inside the handler's try block
PlainError(message) == [message |-> message, status |-> 0]
\* the SyntaxError of req.json() on a body that is no JSON: its message quotes
\* the offending text of the body, and with it a number that occurs there
ParseError(echo) == [message |-> "Unexpected token", status |-> echo]
\* error.message.includes("<code>")
MessageIncludes(error, code) == error.status = code

\* ---------------------------------------------------------------------------
\* Aggregation (serve handler, after the batch loop)
\* ---------------------------------------------------------------------------
RECURSIVE SumField(_, _)
\* allAnalyses.reduce((sum, a) => sum + a.<field>, 0)
SumField(seq, f) ==
    IF seq = <<>> THEN 0 ELSE SumField(SubSeq(seq, 1, Len(seq) - 1), f) + seq[Len(seq)][f]

\* allAnalyses.filter((a) => a.isArtificial).length
ArtificialCount(all) == Cardinality({p \in DOMAIN all : all[p].isArtificial})

\* (variant: the first verdict's value stands for the list)
AverageFromFirst(all, f) == Rat(all[1][f], 1)

\* reduce(...) / allAnalyses.length
Average(all, f) == Rat(SumField(all, f), Len(all))

\* (variant: >= instead of >)
IsAIGeneratedOnTie(artificialCount, n) == RatLeq(Rat(n, 2), Rat(artificialCount, 1))

\* artificialCount > frames.length / 2
IsAIGenerated(artificialCount, n) == RatLess(Rat(n, 2), Rat(artificialCount, 1))

\* (variant: the share of artificial frames is used for both verdicts)
OverallConfidenceOneBranch(isAI, artificialCount, n, avgConfidence) ==
    RatMul(Rat(artificialCount, n), avgConfidence)

\* the conditional expression that weights avgConfidence by the agreement
OverallConfidence(isAI, artificialCount, n, avgConfidence) ==
    IF isAI
    THEN RatMul(Rat(artificialCount, n), avgConfidence)
    ELSE RatMul(Rat(n - artificialCount, n), avgConfidence)

\* (variant: the lower bound is forgotten)
ClampNoFloor(x) == MathMin(Rat(990, 1), x)

\* Math.min(0.99, Math.max(0.5, overallConfidence))
Clamp(x) == MathMin(Rat(990, 1), MathMax(Rat(500, 1), x))

\* allAnalyses.map(({frameIndex, isArtificial, confidence, issues}) => ...)
FrameAnalyses(all) ==
    [p \in DOMAIN all |->
        [frameIndex |-> all[p].frameIndex, isArtificial |-> all[p].isArtificial,
         confidence |-> all[p].confidence, issues |-> all[p].issues]]

\* (variant: the sub-scores are clamped like the confidence)
AggregateClampedDetails(all, frames) ==
    LET n == Len(frames)
        artificialCount == ArtificialCount(all)
        avgConfidence == Average(all, "confidence")
        isAI == IsAIGenerated(artificialCount, n)
    IN  [confidence |-> Clamp(OverallConfidence(isAI, artificialCount, n, avgConfidence)),
         verdict |-> IF isAI THEN "ai-generated" ELSE "real",
         details |-> [faceConsistency |-> Clamp(Average(all, "faceScore")),
                      temporalCoherence |-> Clamp(Average(all, "lightingScore")),
                      artifactScore |-> Clamp(Average(all, "artifactScore")),
                      compressionAnalysis |-> Clamp(Average(all, "qualityScore"))],
         framesAnalyzed |-> n,
         frameAnalyses |-> FrameAnalyses(all)]

\* the AnalysisResult built from allAnalyses and the posted frames
\* (processingTime, a wall-clock reading, is left out)
Aggregate(all, frames) ==
    LET n == Len(frames)
        artificialCount == ArtificialCount(all)
        avgConfidence == Average(all, "confidence")
        isAI == IsAIGenerated(artificialCount, n)
    IN  [confidence |-> Clamp(OverallConfidence(isAI, artificialCount, n, avgConfidence)),
         verdict |-> IF isAI THEN "ai-generated" ELSE "real",
         details |-> [faceConsistency |-> Average(all, "faceScore"),
                      temporalCoherence |-> Average(all, "lightingScore"),
                      artifactScore |-> Average(all, "artifactScore"),
                      compressionAnalysis |-> Average(all, "qualityScore")],
         framesAnalyzed |-> n,
         frameAnalyses |-> FrameAnalyses(all)]

\* ---------------------------------------------------------------------------
\* HTTP requests and responses of the edge function
\* ---------------------------------------------------------------------------
\* frames[k] is the data URL of the k-th image; the image posted at position k
\* is identified by k
FrameList(n) == [k \in 1..n |-> k]
PostFrames(n) == [method |-> "POST", body |-> "object", frames |-> "array", items |-> FrameList(n)]
OtherRequests ==
    { [method |-> "OPTIONS"],
      [method |-> "POST", body |-> "invalid", echo |-> 0],            \* req.json() throws
      [method |-> "POST", body |-> "invalid", echo |-> 429],          \* the body x429
      [method |-> "POST", body |-> "invalid", echo |-> 402],          \* the body x402
      [method |-> "POST", body |-> "null"],                           \* the JSON text null
      [method |-> "POST", body |-> "object", frames |-> "absent"],     \* no frames property
      [method |-> "POST", body |-> "object", frames |-> "string"],     \* frames is no array
      PostFrames(0) }

OkResponse(body) == [status |-> 200, ok |-> TRUE, body |-> body]
ErrorResponse(status, error) == [status |-> status, ok |-> FALSE, body |-> [error |-> error]]

\* (variant: the verdicts obtained before the failure are aggregated)
CatchResponsePartial(error) ==
    IF allAnalyses # <<>>
    THEN OkResponse(Aggregate(allAnalyses, allAnalyses))
    ELSE ErrorResponse(500, error.message)

\* the catch block of the serve handler
CatchResponse(error) ==
    IF MessageIncludes(error, 429)
    THEN ErrorResponse(429, "Rate limit exceeded. Please try again in a moment.")
    ELSE IF MessageIncludes(error, 402)
    THEN ErrorResponse(402, "AI credits exhausted. Please add credits to continue.")
    ELSE ErrorResponse(500, error.message)

\* !frames || !Array.isArray(frames) || frames.length === 0
NoFrames(req) == req.frames # "array" \/ Len(req.items) = 0

\* ---------------------------------------------------------------------------
\* The serve handler: validation, batch loop, aggregation, catch
\* ---------------------------------------------------------------------------
BATCH_SIZE == 3

Pending == [kind |-> "pending"]

Min(a, b) == IF a < b THEN a ELSE b

\* (variant: frames.slice(j), the rest of the list)
BatchIndicesUnbounded(j, n) == j .. (n - 1)

\* frame indices of frames.slice(j, j + BATCH_SIZE), for a list of n frames
BatchIndices(j, n) == j .. (Min(j + BATCH_SIZE, n) - 1)

\* the result slots of Promise.all(batchPromises), one per promise
FreshSlots(j, n) == [idx \in 0 .. (Cardinality(BatchIndices(j, n)) - 1) |-> Pending]

\* (variant: results are collected in the order the calls are answered)
StoreByArrival(slots, idx, v) ==
    LET first == CHOOSE a \in DOMAIN slots :
                    slots[a] = Pending /\ \A b \in DOMAIN slots : slots[b] = Pending => a <= b
    IN  [slots EXCEPT ![first] = v]

\* Promise.all keeps the value of a fulfilled promise at the promise's own position
PromiseAllStore(slots, idx, v) == [slots EXCEPT ![idx] = v]

\* Promise.all fulfils when every promise has fulfilled
AllFulfilled(slots) == \A idx \in DOMAIN slots : slots[idx] # Pending

\* (variant: only the first result of a group is kept)
SlotsFirstOnly(slots) == <<slots[0]>>

\* the array Promise.all resolves to
SlotsSeq(slots) == [p \in 1 .. Cardinality(DOMAIN slots) |-> slots[p - 1]]

\* (variant: every group numbers its calls from 0)
IndexSeqFromZero(j, n) == [p \in 1 .. Cardinality(BatchIndices(j, n)) |-> p - 1]

\* the indices of a group in the order batch.map issues the calls
IndexSeq(j, n) == [p \in 1 .. Cardinality(BatchIndices(j, n)) |-> j + p - 1]

\* one turn of the for loop up to the await: every analyzeFrame of the group
\* runs to its fetch, then the handler waits on Promise.all
StartGroup(j, n, pending) ==
    /\ i' = j
    /\ batchResults' = FreshSlots(j, n)
    /\ inflight' = pending \cup BatchIndices(j, n)
    /\ sent' = sent \o IndexSeq(j, n)
    /\ epc' = "await"
    /\ response' = response

\* the handler returns a Response
Respond(r) ==
    /\ response' = r
    /\ epc' = "done"
    /\ UNCHANGED <<i, batchResults, inflight, sent>>

\* serve(async (req) => ...) from the arrival of the request to the first
\* await on a group (or to the Response, when it returns or throws earlier)
Serve ==
    /\ UNCHANGED aggVars
    /\ epc = "idle"
    /\ UNCHANGED <<request, apiKey, replies, allAnalyses>>
    /\ UNCHANGED <<hookVars, samplerVars, runVars>>
    /\ IF request.method = "OPTIONS"
       THEN Respond([status |-> 200, ok |-> TRUE, body |-> None])
       ELSE IF request.body = "invalid"
       THEN Respond(CatchResponse(ParseError(request.echo)))
       ELSE IF request.body = "null"
       THEN Respond(CatchResponse(PlainError("Cannot destructure property 'frames'")))
       ELSE IF NoFrames(request)
       THEN Respond(ErrorResponse(400, "No frames provided"))
       ELSE IF ~apiKey
       THEN Respond(CatchResponse(PlainError("LOVABLE_API_KEY is not configured")))
       ELSE StartGroup(0, Len(request.items), inflight)

\* The oracle answers the call for frame k with response.ok.  analyzeFrame
\* returns its verdict; when it is the last of its group, Promise.all fulfils
\* and the handler pushes the group's results and either starts the next
\* group or aggregates and returns.
OracleOk(k, reply) ==
    /\ UNCHANGED aggVars
    /\ k \in inflight
    /\ reply.ok
    /\ replies' = IF epc = "await" THEN [replies EXCEPT ![k] = reply] ELSE replies
    /\ UNCHANGED <<request, apiKey>>
    /\ UNCHANGED <<hookVars, samplerVars, runVars>>
    /\ IF epc = "await"
       THEN LET n == Len(request.items)
                slots == PromiseAllStore(batchResults, k - i, analyzeFrame(reply, k))
                all == allAnalyses \o SlotsSeq(slots)
            IN  IF AllFulfilled(slots)
                THEN /\ allAnalyses' = all
                     /\ IF i + BATCH_SIZE < n
                        THEN StartGroup(i + BATCH_SIZE, n, inflight \ {k})
                        ELSE /\ response' = OkResponse(Aggregate(all, request.items))
                             /\ epc' = "done"
                             /\ batchResults' = slots
                             /\ inflight' = inflight \ {k}
                             /\ UNCHANGED <<i, sent>>
                ELSE /\ batchResults' = slots
                     /\ inflight' = inflight \ {k}
                     /\ UNCHANGED <<i, allAnalyses, sent, epc, response>>
       ELSE \* the handler has already returned from its catch block
            /\ inflight' = inflight \ {k}
            /\ UNCHANGED <<i, batchResults, allAnalyses, sent, epc, response>>

\* The oracle answers the call for frame k with a non-success status.
\* analyzeFrame throws; the first rejection rejects Promise.all and the handler
\* returns from its catch block.
OracleFail(k, reply) ==
    /\ UNCHANGED aggVars
    /\ k \in inflight
    /\ ~reply.ok
    /\ replies' = IF epc = "await" THEN [replies EXCEPT ![k] = reply] ELSE replies
    /\ inflight' = inflight \ {k}
    /\ UNCHANGED <<request, apiKey, i, batchResults, allAnalyses, sent>>
    /\ UNCHANGED <<hookVars, samplerVars, runVars>>
    /\ IF epc = "await"
       THEN /\ response' = CatchResponse(GatewayError(reply.status))
            /\ epc' = "done"
       ELSE UNCHANGED <<epc, response>>

\* ---------------------------------------------------------------------------
\* The client: analyzeVideo from its fetch of the edge function onwards
\* ---------------------------------------------------------------------------
\* toast.error(message)
ToastError(message) == [kind |-> "error", message |-> message]

\* the message analyzeVideo throws on !response.ok
ClientErrorMessage(resp) ==
    IF resp.status = 429 THEN "Rate limit exceeded. Please wait a moment and try again."
    ELSE IF resp.status = 402 THEN "AI credits exhausted. Please add credits to continue."
    ELSE IF "error" \in DOMAIN resp.body /\ resp.body.error # "" THEN resp.body.error
    ELSE "Analysis failed"

\* the object passed to setResult
PublishedResult(analysisResult) ==
    [confidence |-> analysisResult.confidence, verdict |-> analysisResult.verdict,
     details |-> analysisResult.details, framesAnalyzed |-> analysisResult.framesAnalyzed]

\* the fetch resolves: on !response.ok the error body is read next, otherwise
\* the step moves to computing
HookFetchDone ==
    /\ UNCHANGED aggVars
    /\ hpc = "fetch"
    /\ response # None
    /\ IF ~response.ok
       THEN /\ hpc' = "errorBody"
            /\ UNCHANGED <<isProcessing, progress, currentStep, result, toast>>
       ELSE /\ hpc' = "resultBody"
            /\ currentStep' = "computing"
            /\ progress' = Rat(85, 1)
            /\ UNCHANGED <<isProcessing, result, toast>>
    /\ UNCHANGED <<edgeVars, samplerVars, runVars>>

\* response.json().catch(...) settles, the Error is thrown, caught and
\* reported; finally clears isProcessing
HookErrorBody ==
    /\ UNCHANGED aggVars
    /\ hpc = "errorBody"
    /\ toast' = ToastError(ClientErrorMessage(response))
    /\ result' = None
    /\ isProcessing' = FALSE
    /\ hpc' = "idle"
    /\ UNCHANGED <<progress, currentStep>>
    /\ UNCHANGED <<edgeVars, samplerVars, runVars>>

\* response.json() resolves with the AnalysisResult
HookResultBody ==
    /\ UNCHANGED aggVars
    /\ hpc = "resultBody"
    /\ currentStep' = "generating"
    /\ progress' = Rat(95, 1)
    /\ hpc' = "delay"
    /\ UNCHANGED <<isProcessing, result, toast>>
    /\ UNCHANGED <<edgeVars, samplerVars, runVars>>

\* the 500 ms timer fires: the result is published; finally clears isProcessing
HookDelayDone ==
    /\ UNCHANGED aggVars
    /\ hpc = "delay"
    /\ progress' = Rat(100, 1)
    /\ result' = PublishedResult(response.body)
    /\ isProcessing' = FALSE
    /\ hpc' = "idle"
    /\ UNCHANGED <<currentStep, toast>>
    /\ UNCHANGED <<edgeVars, samplerVars, runVars>>

\* ---------------------------------------------------------------------------
\* Specification of the edge function and its client
\* ---------------------------------------------------------------------------
SamplerIdle ==
    /\ xpc = "idle"
    /\ duration = Rat(0, 1)
    /\ maxFrames = 0
    /\ timestamps = <<>>
    /\ xi = 0
    /\ currentTime = Rat(0, 1)
    /\ xframes = <<>>
    /\ failed = {}
    /\ settled = None
    /\ frameCount = 0
    /\ videoWidth = 0
    /\ videoHeight = 0
    /\ canvasWidth = 0
    /\ canvasHeight = 0
    /\ onProgress = "none"
    /\ reported = Rat(0, 1)

\* no run of analyzeVideo is tracked
RunIdle ==
    /\ file = None
    /\ runs = 0
    /\ urls = {}
    /\ videos = {}

\* no aggregation on its own is under way
AggIdle ==
    /\ verdicts = <<>>
    /\ order = <<>>
    /\ aggregated = None

\* the hook's state while its fetch is pending (after setCurrentStep('analyzing'))
HookFetching ==
    /\ hpc = "fetch"
    /\ isProcessing = TRUE
    /\ progress = Rat(30, 1)
    /\ currentStep = "analyzing"
    /\ result = None
    /\ toast = None

\* the hook's state after useState(...)
HookIdle ==
    /\ hpc = "idle"
    /\ isProcessing = FALSE
    /\ progress = Rat(0, 1)
    /\ currentStep = "extracting"
    /\ result = None
    /\ toast = None

\* A request reaches the edge function: either the hook's POST of the frames
\* it extracted (at least one), or any other request to the endpoint.
InitEdge ==
    /\ \/ /\ \E n \in 1 .. MaxFrames : request = PostFrames(n)
          /\ HookFetching
       \/ /\ request \in OtherRequests
          /\ HookIdle
    /\ apiKey \in BOOLEAN
    /\ epc = "idle"
    /\ i = 0
    /\ batchResults = <<>>
    /\ inflight = {}
    /\ allAnalyses = <<>>
    /\ response = None
    /\ sent = <<>>
    /\ replies = IF request.method = "POST" /\ request.body = "object" /\ request.frames = "array"
                 THEN [k \in 0 .. (Len(request.items) - 1) |-> None]
                 ELSE <<>>
    /\ SamplerIdle
    /\ RunIdle
    /\ AggIdle

NextEdge ==
    \/ Serve
    \/ \E k \in 0 .. (MaxFrames - 1) : \E reply \in OkReplies : OracleOk(k, reply)
    \/ \E k \in 0 .. (MaxFrames - 1) : \E reply \in FailReplies : OracleFail(k, reply)
    \/ HookFetchDone
    \/ HookErrorBody
    \/ HookResultBody
    \/ HookDelayDone

SpecEdge == InitEdge /\ [][NextEdge]_vars

\* ---------------------------------------------------------------------------
\* Properties of the edge function (checked under SpecEdge)
\* ---------------------------------------------------------------------------
\* the handler has returned an AnalysisResult
HasResult == response # None /\ response.ok /\ response.body # None

\* the request carries a non-empty frame list
PostsFrames == request.method = "POST" /\ request.body = "object" /\ ~NoFrames(request)

\* read from the returned AnalysisResult
ResultFrames == response.body.frameAnalyses
ResultArtificial == Cardinality({p \in DOMAIN ResultFrames : ResultFrames[p].isArtificial = TRUE})
ResultConfidenceSum == SumField(ResultFrames, "confidence")
\* number of frames that agree with the returned verdict
ResultAgreeing ==
    IF response.body.verdict = "ai-generated"
    THEN ResultArtificial
    ELSE Len(ResultFrames) - ResultArtificial

\* C1: the confidence of every returned AnalysisResult lies in [0.5, 0.99].
C1_ConfidenceClamped ==
    HasResult =>
        /\ 500 * response.body.confidence.den <= response.body.confidence.num
        /\ response.body.confidence.num <= 990 * response.body.confidence.den

\* a result whose weighted confidence is below 0.5 and was raised to 0.5
C1_Witness ==
    /\ HasResult
    /\ ResultAgreeing * ResultConfidenceSum < 500 * Len(ResultFrames) * Len(ResultFrames)
    /\ response.body.confidence.num = 500 * response.body.confidence.den

\* C2: the verdict is ai-generated iff strictly more than half of the frames
\* are artificial; a tie or a minority gives real (3 of 5: ai-generated,
\* 2 of 5 and 2 of 4: real).
C2_StrictMajority ==
    HasResult =>
        LET n == Len(request.items)
            a == ResultArtificial
        IN  /\ (response.body.verdict = "ai-generated") <=> (2 * a > n)
            /\ response.body.verdict \in {"ai-generated", "real"}
            /\ (n = 5 /\ a = 3) => response.body.verdict = "ai-generated"
            /\ (n = 5 /\ a = 2) => response.body.verdict = "real"
            /\ (n = 4 /\ a = 2) => response.body.verdict = "real"

\* an exact tie (2 of 4) returned as real
C2_Witness ==
    /\ HasResult
    /\ Len(request.items) = 4
    /\ ResultArtificial = 2
    /\ response.body.verdict = "real"

\* C3: confidence = clamp(agreementFraction * avgConfidence, 0.5, 0.99), with
\* agreementFraction = artificialCount/n for ai-generated and
\* (n - artificialCount)/n for real; 4 real frames of mean 0.8 give real, 0.8;
\* 5 frames, 4 artificial, mean 0.9 give ai-generated, 0.72.
C3_ConfidenceFormula ==
    HasResult =>
        LET n == Len(ResultFrames)
            raw == ResultAgreeing * ResultConfidenceSum   \* times n * n
            c == response.body.confidence
        IN  /\ raw < 500 * n * n => c.num = 500 * c.den
            /\ raw > 990 * n * n => c.num = 990 * c.den
            /\ (500 * n * n <= raw /\ raw <= 990 * n * n) => c.num * n * n = raw * c.den
            /\ (n = 4 /\ ResultArtificial = 0 /\ ResultConfidenceSum = 4 * 800) =>
                    /\ response.body.verdict = "real"
                    /\ c.num = 800 * c.den
            /\ (n = 5 /\ ResultArtificial = 4 /\ ResultConfidenceSum = 5 * 900) =>
                    /\ response.body.verdict = "ai-generated"
                    /\ c.num = 720 * c.den

\* 5 frames, 4 of them artificial, mean confidence 0.9: confidence 0.72
C3_Witness ==
    /\ HasResult
    /\ Len(ResultFrames) = 5
    /\ ResultArtificial = 4
    /\ ResultConfidenceSum = 5 * 900
    /\ response.body.confidence.num = 720 * response.body.confidence.den

\* C4: whatever the order in which the calls of a group are answered, the
\* verdict kept for position p carries frameIndex p and is the verdict of the
\* oracle's reply to frame p: in the slots of the running group, in
\* allAnalyses and in the returned list.
C4_AlignedByIndex ==
    /\ epc = "await" =>
          \A idx \in DOMAIN batchResults :
              batchResults[idx] # Pending =>
                  /\ batchResults[idx].frameIndex = i + idx
                  /\ replies[i + idx] # None
                  /\ batchResults[idx] = analyzeFrame(replies[i + idx], i + idx)
    /\ \A p \in DOMAIN allAnalyses :
          /\ allAnalyses[p].frameIndex = p - 1
          /\ replies[p - 1] # None
          /\ allAnalyses[p] = analyzeFrame(replies[p - 1], p - 1)
    /\ HasResult =>
          \A p \in DOMAIN ResultFrames :
              /\ ResultFrames[p].frameIndex = p - 1
              /\ ResultFrames[p].isArtificial = analyzeFrame(replies[p - 1], p - 1).isArtificial
              /\ ResultFrames[p].confidence = analyzeFrame(replies[p - 1], p - 1).confidence

\* in the second group the call for the last frame is answered while the
\* call for the first frame of the group is still pending
C4_Witness ==
    /\ epc = "await"
    /\ i = BATCH_SIZE
    /\ allAnalyses # <<>>
    /\ 0 \in DOMAIN batchResults /\ batchResults[0] = Pending
    /\ \E idx \in DOMAIN batchResults : idx > 0 /\ batchResults[idx] # Pending

\* the frame indices whose call has been issued
Started == {sent[p] : p \in DOMAIN sent}
\* the group of a frame index
Group(k) == k \div 3

\* C5: at most 3 oracle calls are in flight at any moment, and no call of a
\* later group is issued while a call of an earlier group is unanswered.
C5_BoundedGroups ==
    /\ Cardinality(inflight) <= 3
    /\ \A a \in inflight : \A b \in Started : Group(b) <= Group(a)

\* the first group (three calls) has been answered and pushed, and the calls
\* of the second group are in flight
C5_Witness ==
    /\ Len(allAnalyses) = 3
    /\ Cardinality(inflight) >= 2
    /\ \A a \in inflight : Group(a) = 1

\* some call that the handler was waiting for was answered with a non-success status
TransportFailureSeen == \E k \in DOMAIN replies : replies[k] # None /\ ~replies[k].ok

\* every frame of the request was answered with a success status
AllAnsweredOk == \A k \in DOMAIN replies : replies[k] # None /\ replies[k].ok

\* the hook's run is over
RunEnded == PostsFrames /\ hpc = "idle"

\* C6: a non-success oracle status in any group fails the whole batch: the
\* edge function returns no AnalysisResult (a result is returned only when
\* every call succeeded), and the client ends with an error and result = null.
C6_TransportFailureFailsRun ==
    /\ TransportFailureSeen =>
          /\ epc = "done"
          /\ ~response.ok
          /\ "error" \in DOMAIN response.body
          /\ RunEnded => (result = None /\ toast # None /\ isProcessing = FALSE)
    /\ (PostsFrames /\ HasResult) => AllAnsweredOk

\* a call of the second group fails after the first group was pushed, and
\* the client has ended the run with an error
C6_Witness ==
    /\ TransportFailureSeen
    /\ Len(allAnalyses) = 3
    /\ RunEnded
    /\ toast # None
    /\ result = None

\* the reply to frame k had a success status and content that is no JSON
Malformed(k) ==
    /\ replies[k] # None
    /\ replies[k].ok
    /\ replies[k].content.text.kind \in {"garbage", "empty"}

C8_OneVerdictPerFrame ==
    HasResult =>
        /\ response.body.framesAnalyzed = Len(ResultFrames)
        /\ response.body.framesAnalyzed = Len(request.items)

\* a result for a request whose last group is not full
C8_Witness ==
    /\ HasResult
    /\ Len(request.items) = BATCH_SIZE + 1
    /\ response.body.framesAnalyzed = BATCH_SIZE + 1

\* ---------------------------------------------------------------------------
\* Sampling policy (frameExtractor.ts, getRecommendedFrameCount)
\* ---------------------------------------------------------------------------
\* (variant: the first threshold is exclusive)
RecommendedExclusive(durationSeconds) ==
    IF RatLess(durationSeconds, Rat(10, 1)) THEN 5
    ELSE IF RatLeq(durationSeconds, Rat(30, 1)) THEN 8
    ELSE IF RatLeq(durationSeconds, Rat(60, 1)) THEN 10
    ELSE IF RatLeq(durationSeconds, Rat(180, 1)) THEN 12
    ELSE 15

getRecommendedFrameCount(durationSeconds) ==
    IF RatLeq(durationSeconds, Rat(10, 1)) THEN 5
    ELSE IF RatLeq(durationSeconds, Rat(30, 1)) THEN 8
    ELSE IF RatLeq(durationSeconds, Rat(60, 1)) THEN 10
    ELSE IF RatLeq(durationSeconds, Rat(180, 1)) THEN 12
    ELSE 15

\* the state of the edge function and of the hook when neither is running
EdgeIdle ==
    /\ request = None
    /\ apiKey = TRUE
    /\ epc = "idle"
    /\ i = 0
    /\ batchResults = <<>>
    /\ inflight = {}
    /\ allAnalyses = <<>>
    /\ response = None
    /\ sent = <<>>
    /\ replies = <<>>

\* const frameCount = getRecommendedFrameCount(duration)
Recommend ==
    /\ UNCHANGED aggVars
    /\ xpc = "policy"
    /\ frameCount' = getRecommendedFrameCount(duration)
    /\ xpc' = "recommended"
    /\ UNCHANGED <<duration, maxFrames, timestamps, xi, currentTime, xframes, failed, settled>>
    /\ UNCHANGED <<videoWidth, videoHeight, canvasWidth, canvasHeight, onProgress, reported>>
    /\ UNCHANGED <<edgeVars, hookVars, runVars>>

\* the policy is applied to a duration of h half seconds, h = 0 .. MaxHalfSeconds
InitPolicy ==
    /\ EdgeIdle
    /\ HookIdle
    /\ xpc = "policy"
    /\ \E h \in 0 .. MaxHalfSeconds : duration = Rat(h, 2)
    /\ maxFrames = 0
    /\ timestamps = <<>>
    /\ xi = 0
    /\ currentTime = Rat(0, 1)
    /\ xframes = <<>>
    /\ failed = {}
    /\ settled = None
    /\ frameCount = 0
    /\ videoWidth = 0
    /\ videoHeight = 0
    /\ canvasWidth = 0
    /\ canvasHeight = 0
    /\ onProgress = "none"
    /\ reported = Rat(0, 1)
    /\ RunIdle
    /\ AggIdle

NextPolicy == Recommend

SpecPolicy == InitPolicy /\ [][NextPolicy]_vars

\* the step function the policy is meant to be, on a duration of h half seconds
PolicyTable(h) ==
    IF h <= 20 THEN 5
    ELSE IF h <= 60 THEN 8
    ELSE IF h <= 120 THEN 10
    ELSE IF h <= 360 THEN 12
    ELSE 15

\* C9: getRecommendedFrameCount(d) is 5 for d <= 10, 8 for 10 < d <= 30,
\* 10 for 30 < d <= 60, 12 for 60 < d <= 180 and 15 otherwise; the result is
\* one of {5, 8, 10, 12, 15} and never decreases when d grows.
C9_PolicySteps ==
    xpc = "recommended" =>
        /\ frameCount = PolicyTable(duration.num)
        /\ frameCount \in {5, 8, 10, 12, 15}
        /\ \A h \in 0 .. duration.num : getRecommendedFrameCount(Rat(h, 2)) <= frameCount

\* the policy applied at the threshold of 10 s
C9_Witness ==
    /\ xpc = "recommended"
    /\ duration = Rat(20, 2)
    /\ frameCount = 5

\* ---------------------------------------------------------------------------
\* Frame sampler (frameExtractor.ts, extractFramesFromVideo and captureFrame)
\* ---------------------------------------------------------------------------
\* (variant: the duration is divided by maxFrames)
FrameIntervalInclusive(d, m) == Rat(d.num, d.den * m)

\* const frameInterval = duration / (maxFrames + 1)
FrameInterval(d, m) == Rat(d.num, d.den * (m + 1))

\* for (let i = 1; i <= maxFrames; i++) timestamps.push(frameInterval * i)
Timestamps(d, m) == [j \in 1 .. m |-> RatMul(FrameInterval(d, m), Rat(j, 1))]

\* a canvas dimension is an integer: a fractional value is truncated
Truncate(r) == r.num \div r.den

\* canvas.width = Math.min(video.videoWidth, 1280)
CanvasWidth(vw) == Truncate(MathMin(Rat(vw, 1), Rat(1280, 1)))

\* canvas.height = Math.min(video.videoHeight,
\*                          (canvas.width / video.videoWidth) * video.videoHeight)
CanvasHeight(vw, vh, cw) ==
    Truncate(MathMin(Rat(vh, 1), RatMul(Rat(cw, vw), Rat(vh, 1))))

\* a promise settles once: later calls of resolve and reject change nothing
Settle(outcome) == IF settled = None THEN outcome ELSE settled
Resolved(value) == [kind |-> "resolved", value |-> value]
Rejected(message) == [kind |-> "rejected", message |-> message]

\* the object URL and the video element of extractFramesFromVideo
ObjectUrl(owner, run) == [of |-> owner, run |-> run]
\* URL.revokeObjectURL(objectUrl) / video.remove()
Released(set) == {u \in set : u.of # "extract"}

\* the variables of the serve handler, which the browser never touches
handlerVars == <<apiKey, epc, i, batchResults, inflight, allAnalyses, sent, replies>>

\* (variant: no finally block, isProcessing is left as it is)
CatchWithoutFinally(message) ==
    /\ toast' = ToastError(message)
    /\ result' = None
    /\ hpc' = "idle"
    /\ UNCHANGED <<isProcessing, progress, currentStep, request, response>>

\* the catch and finally blocks of analyzeVideo
CatchAndFinally(message) ==
    /\ toast' = ToastError(message)
    /\ result' = None
    /\ isProcessing' = FALSE
    /\ hpc' = "idle"
    /\ UNCHANGED <<progress, currentStep, request, response>>

\* (variant: step 2 begins at the end of the extraction band, 25)
SendFramesAtQuarter(frames) ==
    /\ currentStep' = "analyzing"
    /\ progress' = Rat(25, 1)
    /\ request' = PostFrames(Len(frames))
    /\ response' = None
    /\ hpc' = "fetch"
    /\ UNCHANGED <<isProcessing, result, toast>>

\* analyzeVideo after await extractFramesFromVideo(...): the frames.length
\* check, then step 2 up to the fetch of the edge function
SendFrames(frames) ==
    IF Len(frames) = 0
    THEN CatchAndFinally("Failed to extract frames from video")
    ELSE /\ currentStep' = "analyzing"
         /\ progress' = Rat(30, 1)
         /\ request' = PostFrames(Len(frames))
         /\ response' = None
         /\ hpc' = "fetch"
         /\ UNCHANGED <<isProcessing, result, toast>>

\* (p) => setProgress(p * 0.25)
ScaledProgress(p) == RatMul(p, Rat(1, 4))

\* What the hook does within a step of the sampler.  cb is the value the step
\* passed to onProgress (None if it made no call), outcome the value of the
\* promise after the step.  When the step settles the promise analyzeVideo is
\* awaiting, analyzeVideo continues (to its fetch, or to its catch block).
HookAfterSampler(cb, outcome) ==
    IF hpc = "extract" /\ settled = None /\ outcome # None
    THEN IF outcome.kind = "resolved"
         THEN SendFrames(outcome.value)
         ELSE CatchAndFinally(outcome.message)
    ELSE /\ progress' = IF cb # None /\ onProgress = "hook" THEN ScaledProgress(cb) ELSE progress
         /\ UNCHANGED <<hpc, isProcessing, currentStep, result, toast, request, response>>

\* captureFrame(video, canvas, ctx, timestamps[j - 1], quality) up to its seek
StartCapture(ts, j) ==
    /\ xi' = j - 1
    /\ currentTime' = ts[j]
    /\ xpc' = "seeking"

\* after the loop: the object URL is revoked, the element removed, and the
\* promise resolved with the frames or rejected when there is none
FinishExtraction(frames) ==
    /\ xpc' = "done"
    /\ urls' = Released(urls)
    /\ videos' = Released(videos)
    /\ settled' = Settle(IF Len(frames) = 0
                         THEN Rejected("Failed to extract any frames from video")
                         ELSE Resolved(frames))
    /\ UNCHANGED <<xi, currentTime>>

\* video.onloadedmetadata up to the first seek
LoadedMetadata ==
    /\ UNCHANGED aggVars
    /\ xpc = "loading"
    /\ timestamps' = Timestamps(duration, maxFrames)
    /\ canvasWidth' = CanvasWidth(videoWidth)
    /\ canvasHeight' = CanvasHeight(videoWidth, videoHeight, canvasWidth')
    /\ StartCapture(timestamps', 1)
    /\ UNCHANGED <<duration, maxFrames, xframes, failed, settled, frameCount>>
    /\ UNCHANGED <<videoWidth, videoHeight, onProgress, reported>>
    /\ UNCHANGED <<edgeVars, hookVars, runVars>>

\* video.onerror while the metadata is loading
LoadError ==
    /\ UNCHANGED aggVars
    /\ xpc = "loading"
    /\ settled' = Settle(Rejected("Failed to load video file"))
    /\ urls' = Released(urls)
    /\ videos' = Released(videos)
    /\ xpc' = "done"
    /\ HookAfterSampler(None, settled')
    /\ UNCHANGED <<duration, maxFrames, timestamps, xi, currentTime, xframes, failed, frameCount>>
    /\ UNCHANGED <<videoWidth, videoHeight, canvasWidth, canvasHeight, onProgress, reported>>
    /\ UNCHANGED <<handlerVars, file, runs>>

\* onProgress?.(((i + 1) / timestamps.length) * 100)
ProgressValue(idx, len) == RatMul(Rat(idx + 1, len), Rat(100, 1))

\* the seeked event: seekHandler draws the frame and resolves; the loop
\* pushes it, reports progress and goes on to the next timestamp or finishes
Seeked ==
    /\ UNCHANGED aggVars
    /\ xpc = "seeking"
    /\ xframes' = Append(xframes, [timestamp |-> currentTime])
    /\ reported' = IF onProgress # "none" THEN ProgressValue(xi, Len(timestamps)) ELSE reported
    /\ IF xi + 1 < Len(timestamps)
       THEN /\ StartCapture(timestamps, xi + 2)
            /\ UNCHANGED <<settled, urls, videos>>
       ELSE FinishExtraction(xframes')
    /\ HookAfterSampler(IF onProgress # "none" THEN reported' ELSE None, settled')
    /\ UNCHANGED <<duration, maxFrames, timestamps, failed, frameCount>>
    /\ UNCHANGED <<videoWidth, videoHeight, canvasWidth, canvasHeight, onProgress>>
    /\ UNCHANGED <<handlerVars, file, runs>>

\* an error event on the video during a seek: video.onerror revokes the URL,
\* removes the element and rejects the promise of extractFramesFromVideo;
\* errorHandler rejects the capture; the loop logs the failure and goes on to
\* the next timestamp or finishes
SeekError ==
    /\ UNCHANGED aggVars
    /\ xpc = "seeking"
    /\ failed' = failed \cup {xi}
    /\ urls' = Released(urls)
    /\ videos' = Released(videos)
    /\ LET afterOnError == Settle(Rejected("Failed to load video file"))
       IN  IF xi + 1 < Len(timestamps)
           THEN /\ StartCapture(timestamps, xi + 2)
                /\ settled' = afterOnError
           ELSE /\ xpc' = "done"
                /\ settled' = afterOnError
                /\ UNCHANGED <<xi, currentTime>>
    /\ HookAfterSampler(None, settled')
    /\ UNCHANGED <<duration, maxFrames, timestamps, xframes, frameCount>>
    /\ UNCHANGED <<videoWidth, videoHeight, canvasWidth, canvasHeight, onProgress, reported>>
    /\ UNCHANGED <<handlerVars, file, runs>>

\* width and height of the videos given to the sampler
VideoSizes == { <<1920, 1080>>, <<1080, 1920>>, <<640, 480>>, <<1281, 1000>>, <<2000, 2000>> }

\* extractFramesFromVideo has been called on a video of positive duration
\* (h half seconds) with maxFrames >= 1, with or without a progress callback,
\* and video.load() has been issued
InitSampler ==
    /\ EdgeIdle
    /\ HookIdle
    /\ xpc = "loading"
    /\ \E h \in 1 .. MaxSamplerHalfSeconds : duration = Rat(h, 2)
    /\ maxFrames \in 1 .. MaxSamples
    /\ timestamps = <<>>
    /\ xi = 0
    /\ currentTime = Rat(0, 1)
    /\ xframes = <<>>
    /\ failed = {}
    /\ settled = None
    /\ frameCount = 0
    /\ \E size \in VideoSizes : videoWidth = size[1] /\ videoHeight = size[2]
    /\ canvasWidth = 0
    /\ canvasHeight = 0
    /\ onProgress \in {"none", "caller"}
    /\ reported = Rat(0, 1)
    /\ file = None
    /\ runs = 0
    /\ urls = {ObjectUrl("extract", 0)}
    /\ videos = {ObjectUrl("extract", 0)}
    /\ AggIdle

NextSampler ==
    \/ LoadedMetadata
    \/ LoadError
    \/ Seeked
    \/ SeekError

SpecSampler == InitSampler /\ [][NextSampler]_vars

\* C10: for a positive duration and maxFrames >= 1 the seek timestamps are
\* duration / (maxFrames + 1) * j for j = 1 .. maxFrames, strictly increasing
\* and strictly inside (0, duration); every seek goes to the timestamp of its
\* turn; the frames are in timestamp order and their number is maxFrames
\* minus the number of failed captures.
C10_InteriorTimestamps ==
    /\ xpc \in {"seeking", "done"} /\ timestamps # <<>> =>
          /\ Len(timestamps) = maxFrames
          /\ \A j \in 1 .. maxFrames :
                /\ timestamps[j].num * duration.den * (maxFrames + 1)
                       = duration.num * j * timestamps[j].den
                /\ 0 < timestamps[j].num
                /\ timestamps[j].num * duration.den < duration.num * timestamps[j].den
          /\ \A j \in 1 .. (maxFrames - 1) :
                timestamps[j].num * timestamps[j + 1].den
                    < timestamps[j + 1].num * timestamps[j].den
    /\ xpc = "seeking" => currentTime = timestamps[xi + 1]
    /\ \A p \in 1 .. (Len(xframes) - 1) :
          xframes[p].timestamp.num * xframes[p + 1].timestamp.den
              < xframes[p + 1].timestamp.num * xframes[p].timestamp.den
    /\ (xpc = "done" /\ timestamps # <<>>) => Len(xframes) = maxFrames - Cardinality(failed)
    /\ settled.kind = "resolved" =>
          /\ settled.value = xframes
          /\ Len(settled.value) = maxFrames - Cardinality(failed)

\* the promise has resolved with several frames
C10_Witness ==
    /\ settled.kind = "resolved"
    /\ Len(settled.value) >= 3
    /\ xpc = "done"

\* the sub-scores of the returned AnalysisResult
ResultDetails == response.body.details

\* a sub-score is the arithmetic mean of a field over the per-frame verdicts
IsMeanOf(score, f) ==
    /\ score.den # 0
    /\ score.num * Len(allAnalyses) = SumField(allAnalyses, f) * score.den

\* the per-frame verdicts with every isArtificial flag inverted and every
\* confidence replaced
Recoloured(all, c) ==
    [p \in DOMAIN all |-> [all[p] EXCEPT !.isArtificial = ~@, !.confidence = c]]

\* C21: the four sub-scores of the AnalysisResult are the arithmetic means of
\* faceScore, lightingScore, artifactScore and qualityScore over all per-frame
\* verdicts, reported as they are; they do not depend on the isArtificial
\* flags or on the confidences.
C21_DetailsAreMeans ==
    (PostsFrames /\ HasResult) =>
        /\ Len(allAnalyses) = Len(request.items)
        /\ IsMeanOf(ResultDetails.faceConsistency, "faceScore")
        /\ IsMeanOf(ResultDetails.temporalCoherence, "lightingScore")
        /\ IsMeanOf(ResultDetails.artifactScore, "artifactScore")
        /\ IsMeanOf(ResultDetails.compressionAnalysis, "qualityScore")
        /\ \A c \in {0, 500, 1000} :
              Aggregate(Recoloured(allAnalyses, c), request.items).details = ResultDetails

\* a result over frames with differing flags, whose mean face score lies
\* below the floor of the confidence clamp
C21_Witness ==
    /\ PostsFrames
    /\ HasResult
    /\ Len(allAnalyses) >= 3
    /\ ArtificialCount(allAnalyses) \in 1 .. (Len(allAnalyses) - 1)
    /\ RatLess(ResultDetails.faceConsistency, Rat(500, 1))
    /\ RatLess(Rat(500, 1), ResultDetails.compressionAnalysis)

\* the number of oracle calls made for frame k
TimesSent(k) == Cardinality({p \in DOMAIN sent : sent[p] = k})

\* C23: each submitted frame is sent to the oracle at most once, whatever
\* the replies (no retry after a failed or unparsable reply), and exactly once
\* in a run that returns an AnalysisResult.
C23_SentAtMostOnce ==
    PostsFrames =>
        /\ \A p \in DOMAIN sent : sent[p] \in 0 .. (Len(request.items) - 1)
        /\ \A k \in 0 .. (Len(request.items) - 1) : TimesSent(k) <= 1
        /\ HasResult => \A k \in 0 .. (Len(request.items) - 1) : TimesSent(k) = 1

\* a result over two groups, one of whose replies was no JSON
C23_Witness ==
    /\ PostsFrames
    /\ Len(request.items) >= 4
    /\ HasResult
    /\ \E k \in DOMAIN replies : Malformed(k)
    /\ Len(sent) = Len(request.items)

\* the fields of the object the oracle is asked for
ScoreFields == {"confidence", "faceScore", "lightingScore", "artifactScore", "qualityScore"}
VerdictFields == {"isArtificial", "issues"} \cup ScoreFields

\* the reply to frame k parsed as an object carrying all seven fields, with a
\* boolean isArtificial and every score in [0,1]
Conforming(k) ==
    /\ replies[k] # None
    /\ replies[k].ok
    /\ replies[k].content.text.kind = "object"
    /\ LET o == replies[k].content.text.obj
       IN  /\ DOMAIN o = VerdictFields
           /\ o.isArtificial \in BOOLEAN
           /\ \A f \in ScoreFields : o[f] \in 0 .. 1000

\* C24: when the reply parses as an object carrying all seven fields with a
\* boolean isArtificial and every score in [0,1], the frame's verdict carries
\* exactly the oracle's values, the boundary value 0 included.
C24_ConformingReplyKept ==
    \A p \in DOMAIN allAnalyses :
        Conforming(p - 1) =>
            /\ allAnalyses[p].frameIndex = p - 1
            /\ \A f \in VerdictFields :
                  allAnalyses[p][f] = replies[p - 1].content.text.obj[f]

\* a reply with confidence 0 has become a verdict with confidence 0.5
C24_Witness ==
    \E p \in DOMAIN allAnalyses :
        /\ Conforming(p - 1)
        /\ replies[p - 1].content.text.obj.confidence = 0
        /\ allAnalyses[p].confidence = 500

\* the oracle call that made the batch fail was answered with this status
FailedWith(code) == \E k \in DOMAIN replies : replies[k] = FailReply(code)

\* the handler has returned an error response to a POST
ErrorReturned == request.method = "POST" /\ epc = "done" /\ ~response.ok

\* C16: the edge function answers 429 exactly when the oracle call that made
\* the batch fail returned 429, 402 exactly when it returned 402, and 500 for
\* every other failure (400 for a missing frame list); the client shows the
\* rate-limit message exactly in the first case.
C16_StatusByOracleFailure ==
    /\ ErrorReturned =>
          /\ response.status = 429 <=> FailedWith(429)
          /\ response.status = 402 <=> FailedWith(402)
          /\ response.status \in {400, 402, 429, 500}
    /\ (RunEnded /\ toast # None) =>
          /\ FailedWith(429) <=>
                toast.message = "Rate limit exceeded. Please wait a moment and try again."
          /\ FailedWith(402) <=>
                toast.message = "AI credits exhausted. Please add credits to continue."

\* a body that is no JSON is answered as if the oracle had limited the rate
C16_Witness ==
    /\ ErrorReturned
    /\ request.body = "invalid"
    /\ sent = <<>>
    /\ response.status = 429

\* the body of the POST is JSON and carries no frame list with an element
LacksFrames ==
    /\ request.method = "POST"
    /\ \/ request.body = "null"
       \/ request.body = "object" /\ NoFrames(request)

\* C17: a request whose frame list is missing, not a list, or empty is
\* answered 400 "No frames provided", before any oracle call is made and
\* without any aggregate being computed.
C17_NoFramesRejected ==
    LacksFrames =>
        /\ sent = <<>>
        /\ inflight = {}
        /\ allAnalyses = <<>>
        /\ epc = "done" => response = ErrorResponse(400, "No frames provided")

\* the JSON body null, which has no frame list, is answered 500
C17_Witness ==
    /\ request.method = "POST"
    /\ request.body = "null"
    /\ epc = "done"
    /\ response.status = 500
    /\ sent = <<>>

\* the extraction has run to the end of its capture loop
LoopEnded == xpc = "done" /\ timestamps # <<>>

\* C11: a capture that fails at one timestamp is skipped and the loop goes on;
\* once the metadata has loaded, extractFramesFromVideo rejects only if every
\* capture failed, and otherwise resolves with the frames that were captured.
C11_PartialFailureSkipped ==
    LoopEnded =>
        /\ Len(xframes) + Cardinality(failed) = Len(timestamps)
        /\ IF xframes = <<>>
           THEN settled # None /\ settled.kind = "rejected"
           ELSE settled = Resolved(xframes)

\* one capture failed, a later one succeeded, and the promise is rejected
C11_Witness ==
    /\ LoopEnded
    /\ failed # {}
    /\ xframes # <<>>
    /\ settled = Rejected("Failed to load video file")

\* the larger of two canvas dimensions
Larger(a, b) == IF a >= b THEN a ELSE b

\* width : height of the canvas equals that of the source, up to the
\* truncation of the height to whole pixels
KeepsAspect(cw, ch, vw, vh) ==
    /\ cw * vh - ch * vw >= 0
    /\ cw * vh - ch * vw < vw

\* C12: for every source width and height, the canvas has
\* max(width, height) <= 1280 and keeps the source aspect ratio.
C12_CanvasWithinCap ==
    xpc # "loading" /\ timestamps # <<>> =>
        /\ Larger(canvasWidth, canvasHeight) <= 1280
        /\ KeepsAspect(canvasWidth, canvasHeight, videoWidth, videoHeight)

\* a portrait source taller than the cap keeps its full height
C12_Witness ==
    /\ timestamps # <<>>
    /\ videoWidth = 1080
    /\ videoHeight = 1920
    /\ canvasWidth = 1080
    /\ canvasHeight = 1920

\* ---------------------------------------------------------------------------
\* A run of the hook (useVideoAnalysis.ts, analyzeVideo and reset), with the
\* frame sampler it calls; the edge function is taken by its responses
\* ---------------------------------------------------------------------------
MaxRuns == 2    \* number of calls of analyzeVideo

\* the files handed to analyzeVideo: a video the browser decodes, and a file
\* it cannot open as a video
Files ==
    { [decodable |-> TRUE, duration |-> Rat(4, 1), width |-> 1920, height |-> 1080],
      [decodable |-> FALSE] }

\* analyzeVideo(file) from its call to the await on the duration probe.  The
\* page offers it only while no run is in progress; a call that overlaps an
\* unfinished one is not modelled.
AnalyzeVideo(f) ==
    /\ UNCHANGED aggVars
    /\ hpc = "idle"
    /\ ~isProcessing
    /\ runs < MaxRuns
    /\ file' = f
    /\ runs' = runs + 1
    /\ isProcessing' = TRUE
    /\ progress' = Rat(0, 1)
    /\ result' = None
    /\ currentStep' = "extracting"
    /\ videos' = videos \cup {ObjectUrl("probe", runs')}
    /\ urls' = urls \cup {ObjectUrl("probe", runs')}
    /\ hpc' = "probe"
    /\ UNCHANGED <<toast, edgeVars, samplerVars>>

\* the probe's onloadedmetadata: the duration is known, the frame count is
\* chosen and extractFramesFromVideo is called up to video.load().  (A capture
\* loop left running by an earlier call is assumed to have finished.)
ProbeLoaded ==
    /\ UNCHANGED aggVars
    /\ hpc = "probe"
    /\ file.decodable
    /\ xpc \in {"idle", "done"}
    /\ frameCount' = getRecommendedFrameCount(file.duration)
    /\ duration' = file.duration
    /\ maxFrames' = frameCount'
    /\ onProgress' = "hook"
    /\ videoWidth' = file.width
    /\ videoHeight' = file.height
    /\ canvasWidth' = 0
    /\ canvasHeight' = 0
    /\ timestamps' = <<>>
    /\ xi' = 0
    /\ currentTime' = Rat(0, 1)
    /\ xframes' = <<>>
    /\ failed' = {}
    /\ settled' = None
    /\ reported' = Rat(0, 1)
    /\ videos' = videos \cup {ObjectUrl("extract", runs)}
    /\ urls' = urls \cup {ObjectUrl("extract", runs)}
    /\ xpc' = "loading"
    /\ hpc' = "extract"
    /\ UNCHANGED <<isProcessing, progress, currentStep, result, toast, edgeVars, file, runs>>

\* the verdicts of a request all of whose frames the oracle flags
AllFlagged(req) ==
    [k \in DOMAIN req.items |->
        analyzeFrame(OkReply(Content(FALSE, TextObject(ObjFake))), k - 1)]

\* responses of the edge function to a posted frame list: a result, or the
\* response of its catch block to a failed oracle call
EdgeResponses(req) ==
    {OkResponse(Aggregate(AllFlagged(req), req.items))}
        \cup {CatchResponse(GatewayError(reply.status)) : reply \in FailReplies}

\* the edge function answers the hook's fetch
EdgeResponds ==
    /\ UNCHANGED aggVars
    /\ hpc = "fetch"
    /\ response = None
    /\ response' \in EdgeResponses(request)
    /\ UNCHANGED <<request, handlerVars, hookVars, samplerVars, runVars>>

\* the fetch rejects (the network is down)
FetchRejects ==
    /\ UNCHANGED aggVars
    /\ hpc = "fetch"
    /\ response = None
    /\ CatchAndFinally("Failed to fetch")
    /\ UNCHANGED <<handlerVars, samplerVars, runVars>>

\* (variant: the step is left as it is)
ResetKeepsStep ==
    /\ UNCHANGED aggVars
    /\ isProcessing' = FALSE
    /\ progress' = Rat(0, 1)
    /\ result' = None
    /\ UNCHANGED <<currentStep, hpc, toast, edgeVars, samplerVars, runVars>>

\* reset(): four state setters; a call of analyzeVideo in progress goes on
Reset ==
    /\ UNCHANGED aggVars
    /\ isProcessing' = FALSE
    /\ progress' = Rat(0, 1)
    /\ currentStep' = "extracting"
    /\ result' = None
    /\ UNCHANGED <<hpc, toast, edgeVars, samplerVars, runVars>>

\* the page has mounted the hook
InitRun ==
    /\ EdgeIdle
    /\ HookIdle
    /\ SamplerIdle
    /\ RunIdle
    /\ AggIdle

\* steps of the program and of its environment (events, responses)
RunStep ==
    \/ ProbeLoaded
    \/ LoadedMetadata
    \/ LoadError
    \/ Seeked
    \/ SeekError
    \/ EdgeResponds
    \/ FetchRejects
    \/ HookFetchDone
    \/ HookErrorBody
    \/ HookResultBody
    \/ HookDelayDone

NextRun ==
    \/ \E f \in Files : AnalyzeVideo(f)
    \/ RunStep
    \/ Reset

SpecRun == InitRun /\ [][NextRun]_vars

\* ---------------------------------------------------------------------------
\* Properties of a run (checked under SpecRun)
\* ---------------------------------------------------------------------------
\* a call of analyzeVideo has returned
RunOver == runs > 0 /\ hpc = "idle"

\* C13: every object URL and every temporary video element acquired for a run,
\* in the extractor and in the hook's duration probe, has been released by the
\* time the run ends, whether it succeeds or fails.
C13_ResourcesReleased == RunOver => urls = {} /\ videos = {}

\* a run has published its result and the object URL of its probe is still held
C13_Witness ==
    /\ RunOver
    /\ result # None
    /\ ObjectUrl("probe", runs) \in urls
    /\ \A u \in urls : u.of = "probe"

\* this step ends a call of analyzeVideo in its catch block
RunFails == hpc \notin {"idle", "delay"} /\ hpc' = "idle"

\* this step is a call of analyzeVideo
RunStarts == hpc = "idle" /\ hpc' = "probe"

C15_UndecodableRunEnds ==
    (file # None /\ ~file.decodable) =>
        IF hpc = "idle"
        THEN toast # None /\ ~isProcessing
        ELSE ENABLED RunStep

\* the run waits for the metadata of a file that has none
C15_Witness ==
    /\ file # None
    /\ ~file.decodable
    /\ hpc = "probe"
    /\ isProcessing
    /\ currentStep = "extracting"
    /\ toast = None

\* C18: immediately after reset(), isProcessing = false, progress = 0,
\* currentStep = extracting and result = null, whatever the state was before.
C18_ResetReturnsToIdle ==
    [][ Reset => /\ isProcessing' = FALSE
                 /\ progress' = Rat(0, 1)
                 /\ currentStep' = "extracting"
                 /\ result' = None ]_vars

\* reset() was called while the fetch of a run was pending
C18_Witness ==
    /\ hpc = "fetch"
    /\ ~isProcessing
    /\ progress = Rat(0, 1)
    /\ currentStep = "extracting"
    /\ result = None

\* position of a step in the order extracting, analyzing, computing, generating
StepRank(step) ==
    CASE step = "extracting" -> 1
      [] step = "analyzing" -> 2
      [] step = "computing" -> 3
      [] step = "generating" -> 4

\* this step is taken by a run that reset() has not interrupted
InRun == isProcessing /\ ~Reset

C20_ProgressMonotone ==
    [][ /\ InRun =>
              /\ RatLeq(progress, progress')
              /\ RatLeq(Rat(0, 1), progress')
              /\ RatLeq(progress', Rat(100, 1))
              /\ hpc' \in {"probe", "extract"} => RatLeq(progress', Rat(25, 1))
        /\ (xpc = "seeking" /\ reported' # reported) =>
              /\ RatLess(reported, reported')
              /\ RatLeq(reported', Rat(100, 1)) ]_vars

\* during the second run, the capture loop of the failed first run has raised
\* the progress before the second extraction has begun
C20_Witness ==
    /\ runs = 2
    /\ hpc = "probe"
    /\ isProcessing
    /\ xpc = "seeking"
    /\ RatLess(Rat(0, 1), progress)

\* ---------------------------------------------------------------------------
\* The aggregation on its own (index.ts, serve handler after the batch loop),
\* applied to a list of verdicts and to a rearrangement of it
\* ---------------------------------------------------------------------------
MaxVerdicts == 3    \* longest list of verdicts aggregated on its own

\* the one-to-one maps of 1..n onto itself
Rearrangements(n) ==
    {f \in [1 .. n -> 1 .. n] : \A a, b \in 1 .. n : a # b => f[a] # f[b]}

\* the list with its elements taken in the given order
Rearranged(all, f) == [p \in DOMAIN all |-> all[f[p]]]

\* the aggregation block run on allAnalyses = verdicts (frames.length is
\* their number), then once more, then on the rearranged list
AggregateVerdicts ==
    /\ aggregated = None
    /\ verdicts # <<>>
    /\ aggregated' = [first |-> Aggregate(verdicts, verdicts),
                      again |-> Aggregate(verdicts, verdicts),
                      rearranged |-> Aggregate(Rearranged(verdicts, order), verdicts)]
    /\ UNCHANGED <<verdicts, order>>
    /\ UNCHANGED <<edgeVars, hookVars, samplerVars, runVars>>

\* the batch loop has collected one verdict per frame from replies the oracle
\* sent with a success status; a rearrangement of the list is chosen
InitAggregate ==
    /\ EdgeIdle
    /\ HookIdle
    /\ SamplerIdle
    /\ RunIdle
    /\ \E n \in 1 .. MaxVerdicts :
          /\ \E rs \in [1 .. n -> OkReplies] :
                verdicts = [p \in 1 .. n |-> analyzeFrame(rs[p], p - 1)]
          /\ order \in Rearrangements(n)
    /\ aggregated = None

NextAggregate == AggregateVerdicts

SpecAggregate == InitAggregate /\ [][NextAggregate]_vars

\* the fields of an AnalysisResult that the order of the verdicts may not touch
Summary(r) ==
    [verdict |-> r.verdict, confidence |-> r.confidence, details |-> r.details,
     framesAnalyzed |-> r.framesAnalyzed]

Abandoned == hpc # "idle" /\ ~isProcessing

\* C25: once reset() has been called, result stays null and isProcessing
\* false until the next call of analyzeVideo, also when a run was in flight:
\* the continuation of the abandoned run publishes no result and changes
\* neither progress nor the step.
C25_AbandonedRunIsSilent ==
    [][ Abandoned => /\ result' = None
                     /\ isProcessing' = FALSE
                     /\ progress' = progress
                     /\ currentStep' = currentStep ]_vars

\* after a reset() during the final delay, the abandoned run has published
\* its result
C25_Witness ==
    /\ RunOver
    /\ ~isProcessing
    /\ result # None
    /\ currentStep = "extracting"
    /\ progress = Rat(100, 1)


====
